---- MODULE Spec2Model ----
(***************************************************************************)
(* Model of js/app.js, the front end of the housing-subscription           *)
(* dashboard: the listing store (allItems), the filter/sort pipeline, the  *)
(* metric helpers (getBestModel, formatMoney) and the hash-driven detail   *)
(* overlay.                                                                *)
(*                                                                         *)
(* Strings.  The module is ASCII, so the Korean status strings of the      *)
(* snapshot are written romanised: "jeopsu-yejeong" (receipt upcoming),    *)
(* "jeopsu-jung" (receipt open), "jeopsu-magam" (receipt closed) and       *)
(* "cheongyak-jongryo" (any other status).                                 *)
(*                                                                         *)
(* A JSON number that may be null/absent is a record [null, v]; a date     *)
(* string is a record [kind, t] with kind "absent" (null, undefined or     *)
(* ""), "invalid" (a string Date cannot parse) or "date" (t is getTime()). *)
(* The fragment is a sequence of tokens: <<>> is the empty fragment,       *)
(* <<"#detail/", "A">> is '#detail/A'.  Listing ids are fragment-safe      *)
(* ASCII tokens, so reading location.hash returns what was assigned.       *)
(***************************************************************************)
EXTENDS Integers, Sequences, FiniteSets, TLC

VARIABLES
  pc,            \* position of init(): "fetching", "loaded", "ready", "aborted"
  server,        \* what data/subscriptions.json answers to the one fetch
  loadOutcome,   \* "none", "ok" (try block completed) or "failed" (catch block ran)
  failShown,     \* how many times the catch block wrote the load-failure view
  allItems,      \* let allItems
  activeFilters, \* let activeFilters
  activeSort,    \* let activeSort
  cardList,      \* content of #cardList: [kind, items]
  hash,          \* window.location.hash
  pending,       \* hashchange events queued and not yet dispatched
  listening,     \* the hashchange listener is registered
  bound,         \* bindEvents() has run
  overlayActive, \* #detailOverlay has class 'active'
  bodyOverflow,  \* document.body.style.overflow
  panel,         \* listing rendered in #detailPanel: <<>> or <<item>>
  hFn,           \* pure-function harness: the function called
  hArg,          \* its arguments
  hRet,          \* its result
  hDone          \* the call has returned

vars == <<pc, server, loadOutcome, failShown, allItems, activeFilters, activeSort,
          cardList, hash, pending, listening, bound, overlayActive, bodyOverflow,
          panel, hFn, hArg, hRet, hDone>>

appVars == <<pc, server, loadOutcome, failShown, allItems, activeFilters, activeSort,
             cardList, hash, pending, listening, bound, overlayActive, bodyOverflow,
             panel>>

harnessVars == <<hFn, hArg, hRet, hDone>>

----------------------------------------------------------------------------
(* Bounds *)

MaxLen == 3
MaxPending == 2
MaxProfit == 1
MaxDate == 2
MaxItems == 2

----------------------------------------------------------------------------
(* Values *)

StUpcoming == "jeopsu-yejeong"
StOpen == "jeopsu-jung"
StClosed == "jeopsu-magam"
StEnded == "cheongyak-jongryo"
Statuses == {StUpcoming, StOpen, StClosed, StEnded}
Regions == {"seoul", "gyeonggi"}

Null == [null |-> TRUE, v |-> 0]
Num(n) == [null |-> FALSE, v |-> n]

NoDate == [kind |-> "absent", t |-> 0]
BadDate == [kind |-> "invalid", t |-> 0]
Date(n) == [kind |-> "date", t |-> n]

NoModels == [kind |-> "absent", list |-> <<>>]
Models(l) == [kind |-> "array", list |-> l]
NotArray == [kind |-> "notarray", list |-> <<>>]

MkItem(id, status, region, profit, rs, ad, models) ==
  [id |-> id, status |-> status, region |-> region, max_profit |-> profit,
   schedule |-> [receipt_start |-> rs, announcement_date |-> ad],
   models |-> models]

\* JS `x || 0` on a number that may be null or undefined
OrZero(x) == IF x.null \/ x.v = 0 THEN 0 ELSE x.v

----------------------------------------------------------------------------
(* Filter / sort pipeline *)

FilterKeepsAnyRegion(item, filters) ==
  IF filters.status = "upcoming"
  THEN item.status = StUpcoming \/ item.status = StOpen
  ELSE filters.status = "all" \/ item.status = filters.status

\* the callback of items.filter in applyFilters
FilterKeeps(item, filters) ==
  IF filters.status = "upcoming" /\ item.status # StUpcoming /\ item.status # StOpen
  THEN FALSE
  ELSE IF filters.status # "upcoming" /\ filters.status # "all"
          /\ item.status # filters.status
  THEN FALSE
  ELSE IF filters.region # "all" /\ item.region # filters.region
  THEN FALSE
  ELSE TRUE

RECURSIVE ApplyFilters(_, _)
ApplyFilters(items, filters) ==
  IF items = <<>> THEN <<>>
  ELSE LET rest == ApplyFilters(Tail(items), filters)
       IN IF FilterKeeps(Head(items), filters) THEN <<Head(items)>> \o rest ELSE rest

DateVal(d) ==
  IF d.kind = "absent" THEN 0
  ELSE IF d.kind = "invalid" THEN 0
  ELSE d.t

BestDateAnnouncementFirst(item) ==
  LET a == DateVal(item.schedule.announcement_date)
      r == DateVal(item.schedule.receipt_start)
  IN IF a # 0 THEN a ELSE IF r # 0 THEN r ELSE 0

BestDate(item) ==
  LET r == DateVal(item.schedule.receipt_start)
      a == DateVal(item.schedule.announcement_date)
  IN IF r # 0 THEN r ELSE IF a # 0 THEN a ELSE 0

SortKeys == {"profit-desc", "profit-asc", "date-asc", "date-desc"}

\* the comparator applySort hands to Array.prototype.sort for each case
Compare(sort, a, b) ==
  CASE sort = "profit-desc" -> OrZero(b.max_profit) - OrZero(a.max_profit)
    [] sort = "profit-asc" -> OrZero(a.max_profit) - OrZero(b.max_profit)
    [] sort = "date-asc" -> BestDate(a) - BestDate(b)
    [] sort = "date-desc" -> BestDate(b) - BestDate(a)
    [] OTHER -> 0

\* Array.prototype.sort is stable: x goes before the first element that the
\* comparator orders strictly after it.
RECURSIVE InsertSorted(_, _, _)
InsertSorted(sorted, x, sort) ==
  IF sorted = <<>> THEN <<x>>
  ELSE IF Compare(sort, Head(sorted), x) > 0 THEN <<x>> \o sorted
  ELSE <<Head(sorted)>> \o InsertSorted(Tail(sorted), x, sort)

RECURSIVE StableSort(_, _, _)
StableSort(done, todo, sort) ==
  IF todo = <<>> THEN done
  ELSE StableSort(InsertSorted(done, Head(todo), sort), Tail(todo), sort)

ApplySort(items, sort) ==
  IF sort \in SortKeys THEN StableSort(<<>>, items, sort) ELSE items

----------------------------------------------------------------------------
(* Metric helpers *)

\* models.reduce((best, m) => (m.profit||0) > (best.profit||0) ? m : best, models[0]);
\* the result is the index of the element returned.
RECURSIVE ReduceBest(_, _, _)
ReduceBest(list, best, i) ==
  IF i > Len(list) THEN best
  ELSE ReduceBest(list,
                  IF OrZero(list[i].profit) > OrZero(list[best].profit) THEN i ELSE best,
                  i + 1)

RECURSIVE ReduceLast(_, _, _)
ReduceLast(list, best, i) ==
  IF i > Len(list) THEN best
  ELSE ReduceLast(list,
                  IF OrZero(list[i].profit) >= OrZero(list[best].profit) THEN i ELSE best,
                  i + 1)

GetBestModelLastWins(models) ==
  IF models.kind = "absent" THEN [kind |-> "null", idx |-> 0]
  ELSE IF models.kind = "notarray" THEN [kind |-> "throw", idx |-> 0]
  ELSE IF Len(models.list) = 0 THEN [kind |-> "null", idx |-> 0]
  ELSE [kind |-> "model", idx |-> ReduceLast(models.list, 1, 1)]

GetBestModel(models) ==
  IF models.kind = "absent" THEN [kind |-> "null", idx |-> 0]
  ELSE IF models.kind = "notarray" THEN [kind |-> "throw", idx |-> 0]
  ELSE IF Len(models.list) = 0 THEN [kind |-> "null", idx |-> 0]
  ELSE [kind |-> "model", idx |-> ReduceBest(models.list, 1, 1)]

Eok == 100000000
Man == 10000

\* Number.prototype.toLocaleString: the thousands groups, most significant first
RECURSIVE ToLocaleString(_)
ToLocaleString(n) ==
  IF n < 1000 THEN <<n>> ELSE Append(ToLocaleString(n \div 1000), n % 1000)

Abs(n) == IF n < 0 THEN 0 - n ELSE n

Dash == [sign |-> "", eok |-> <<>>, man |-> <<>>, won |-> <<>>, text |-> "-"]

FormatNumber(amount) ==
  LET absAmount == Abs(amount)
      sign == IF amount < 0 THEN "-" ELSE ""
  IN IF absAmount >= Eok
     THEN LET eok == absAmount \div Eok
              man == (absAmount % Eok) \div Man
          IN [sign |-> sign, eok |-> <<eok>>,
              man |-> IF man > 0 THEN ToLocaleString(man) ELSE <<>>,
              won |-> <<>>, text |-> IF man > 0 THEN "eok man" ELSE "eok"]
     ELSE IF absAmount >= Man
     THEN [sign |-> sign, eok |-> <<>>, man |-> ToLocaleString(absAmount \div Man),
           won |-> <<>>, text |-> "man"]
     ELSE [sign |-> sign, eok |-> <<>>, man |-> <<>>,
           won |-> ToLocaleString(absAmount), text |-> "won"]

FormatMoneyZeroIsMissing(amount) ==
  IF amount.kind # "number" \/ amount.v = 0 THEN Dash ELSE FormatNumber(amount.v)

\* JS `!amount` for an amount that is null, undefined or a number
Not(amount) == amount.kind # "number" \/ amount.v = 0

\* amount is [kind, v] with kind "null", "undefined" or "number"
FormatMoney(amount) ==
  IF Not(amount) /\ ~(amount.kind = "number" /\ amount.v = 0)
  THEN Dash
  ELSE FormatNumber(amount.v)

----------------------------------------------------------------------------
(* Rendering and the detail overlay *)

IdNames == <<"A", "B", "C", "D", "E", "F">>
Ids == {IdNames[i] : i \in 1..MaxItems}

RECURSIVE AnyThrows(_)
AnyThrows(items) ==
  IF items = <<>> THEN FALSE
  ELSE GetBestModel(Head(items).models).kind = "throw" \/ AnyThrows(Tail(items))

\* renderCards: the new content of #cardList, or threw (createCard raised and
\* innerHTML was never assigned)
RenderCards(items, filters, sort, old) ==
  LET filtered == ApplySort(ApplyFilters(items, filters), sort)
  IN IF Len(filtered) = 0
     THEN [threw |-> FALSE, view |-> [kind |-> "listEmpty", items |-> <<>>]]
     ELSE IF AnyThrows(filtered)
     THEN [threw |-> TRUE, view |-> old]
     ELSE [threw |-> FALSE, view |-> [kind |-> "cards", items |-> filtered]]

LoadFailView == [kind |-> "loadFail", items |-> <<>>]

DetailPrefix == "#detail/"
StartsWithDetail(h) == Len(h) >= 1 /\ h[1] = DetailPrefix
DetailFragment(id) == <<DetailPrefix, id>>

\* allItems.find(i => i.id === id): the index of the first match, 0 if none
Find(items, id) ==
  IF \E i \in 1..Len(items) : <<items[i].id>> = id
  THEN CHOOSE i \in 1..Len(items) :
         /\ <<items[i].id>> = id
         /\ \A j \in 1..(i - 1) : <<items[j].id>> # id
  ELSE 0

Nav == [hash |-> hash, overlayActive |-> overlayActive,
        bodyOverflow |-> bodyOverflow, panel |-> panel]

\* openDetail(id) from the view state st; threw when buildDetailHTML raised
OpenDetail(id, items, st) ==
  LET i == Find(items, id)
  IN IF i = 0 THEN [threw |-> FALSE, st |-> st]
     ELSE IF GetBestModel(items[i].models).kind = "throw"
     THEN [threw |-> TRUE, st |-> st]
     ELSE [threw |-> FALSE,
           st |-> [st EXCEPT !.panel = <<items[i]>>,
                             !.overlayActive = TRUE,
                             !.bodyOverflow = "hidden"]]

CloseDetailKeepsLock(st) ==
  [st EXCEPT !.overlayActive = FALSE,
             !.hash = IF StartsWithDetail(st.hash) THEN <<>> ELSE st.hash]

CloseDetail(st) ==
  [st EXCEPT !.overlayActive = FALSE,
             !.bodyOverflow = "",
             !.hash = IF StartsWithDetail(st.hash) THEN <<>> ELSE st.hash]

HandleHashChange(items, st) ==
  IF StartsWithDetail(st.hash)
  THEN OpenDetail(Tail(st.hash), items, st)
  ELSE [threw |-> FALSE, st |-> CloseDetail(st)]

SetNav(st) ==
  /\ hash' = st.hash
  /\ overlayActive' = st.overlayActive
  /\ bodyOverflow' = st.bodyOverflow
  /\ panel' = st.panel

----------------------------------------------------------------------------
(* The snapshot served and the events of the page *)

\* Listing i of a snapshot: id, region and profit follow the position, the
\* status and the shape of `models` vary.
Listing(i, status, models) ==
  MkItem(IdNames[i], status, IF i % 2 = 1 THEN "seoul" ELSE "gyeonggi",
         Num(i - 1), Date(1), NoDate, models)

ListingShapes == {StUpcoming, StClosed} \X {Models(<<>>), NotArray}

Snapshots ==
  UNION {{[i \in 1..n |-> Listing(i, f[i][1], f[i][2])] : f \in [1..n -> ListingShapes]}
         : n \in 0..MaxItems}

Responses ==
  {[kind |-> k, items |-> <<>>] : k \in {"unreachable", "status", "parse"}}
    \cup {[kind |-> "ok", items |-> s] : s \in Snapshots}

Fragments ==
  {<<>>, DetailFragment("Z")} \cup {DetailFragment(id) : id \in Ids}

\* the .filter-btn elements of the page, as <<data-filter, data-value>>
FilterButtons ==
  {<<"status", v>> : v \in {"upcoming", "all", StClosed}}
    \cup {<<"region", "all">>}

\* the options of #sortSelect
SortOptions == {"date-asc", "profit-desc"}

Pending == [kind |-> "pending"]

HarnessIdle ==
  /\ hFn = "none"
  /\ hArg = <<>>
  /\ hRet = Pending
  /\ hDone = FALSE

AppStart ==
  /\ pc = "fetching"
  /\ loadOutcome = "none"
  /\ failShown = 0
  /\ allItems = <<>>
  /\ activeFilters = [status |-> "upcoming", region |-> "all"]
  /\ activeSort = "date-asc"
  /\ cardList = [kind |-> "initial", items |-> <<>>]
  /\ pending = 0
  /\ listening = FALSE
  /\ bound = FALSE
  /\ overlayActive = FALSE
  /\ bodyOverflow = ""
  /\ panel = <<>>

\* The page is opened on any fragment (a deep link or none).
Init ==
  /\ AppStart
  /\ server \in Responses
  /\ hash \in Fragments
  /\ HarnessIdle

\* loadData, from the fetch to the end of its try or catch block
LoadData ==
  /\ pc = "fetching"
  /\ pc' = "loaded"
  /\ IF server.kind # "ok"
     THEN /\ allItems' = allItems
          /\ cardList' = LoadFailView
          /\ loadOutcome' = "failed"
          /\ failShown' = failShown + 1
     ELSE LET r == RenderCards(server.items, activeFilters, activeSort, cardList)
          IN /\ allItems' = server.items
             /\ IF r.threw
                THEN /\ cardList' = LoadFailView
                     /\ loadOutcome' = "failed"
                     /\ failShown' = failShown + 1
                ELSE /\ cardList' = r.view
                     /\ loadOutcome' = "ok"
                     /\ failShown' = failShown
  /\ UNCHANGED <<server, activeFilters, activeSort, hash, pending, listening, bound,
                 overlayActive, bodyOverflow, panel>>
  /\ UNCHANGED harnessVars

InitFinishNoRestore ==
  /\ pc = "loaded"
  /\ bound' = TRUE
  /\ pc' = "ready"
  /\ listening' = TRUE
  /\ UNCHANGED <<hash, overlayActive, bodyOverflow, panel>>
  /\ UNCHANGED <<server, loadOutcome, failShown, allItems, activeFilters, activeSort,
                 cardList, pending>>
  /\ UNCHANGED harnessVars

\* init after `await loadData()`: bindEvents(); handleHashChange(); addEventListener
InitFinish ==
  /\ pc = "loaded"
  /\ bound' = TRUE
  /\ LET r == HandleHashChange(allItems, Nav)
     IN /\ SetNav(r.st)
        /\ IF r.threw
           THEN pc' = "aborted" /\ listening' = FALSE
           ELSE pc' = "ready" /\ listening' = TRUE
  /\ UNCHANGED <<server, loadOutcome, failShown, allItems, activeFilters, activeSort,
                 cardList, pending>>
  /\ UNCHANGED harnessVars

\* The fragment changes by the address bar, a link or back/forward: a
\* hashchange event is queued.
SetHash ==
  /\ pc # "loaded"
  /\ pending < MaxPending
  /\ \E h \in Fragments :
       /\ h # hash
       /\ hash' = h
  /\ pending' = pending + 1
  /\ UNCHANGED <<pc, server, loadOutcome, failShown, allItems, activeFilters,
                 activeSort, cardList, listening, bound, overlayActive, bodyOverflow,
                 panel>>
  /\ UNCHANGED harnessVars

\* click on a rendered card: window.location.hash = `#detail/${id}`
CardClick ==
  /\ pc # "loaded"
  /\ cardList.kind = "cards"
  /\ pending < MaxPending
  /\ \E i \in 1..Len(cardList.items) :
       /\ DetailFragment(cardList.items[i].id) # hash
       /\ hash' = DetailFragment(cardList.items[i].id)
  /\ pending' = pending + 1
  /\ UNCHANGED <<pc, server, loadOutcome, failShown, allItems, activeFilters,
                 activeSort, cardList, listening, bound, overlayActive, bodyOverflow,
                 panel>>
  /\ UNCHANGED harnessVars

\* A queued hashchange event is dispatched: handleHashChange if the listener
\* is registered, nothing otherwise.
DispatchHashChange ==
  /\ pc # "loaded"
  /\ pending > 0
  /\ pending' = pending - 1
  /\ IF listening
     THEN SetNav(HandleHashChange(allItems, Nav).st)
     ELSE UNCHANGED <<hash, overlayActive, bodyOverflow, panel>>
  /\ UNCHANGED <<pc, server, loadOutcome, failShown, allItems, activeFilters,
                 activeSort, cardList, listening, bound>>
  /\ UNCHANGED harnessVars

\* click on a .filter-btn
FilterClick ==
  /\ bound
  /\ \E b \in FilterButtons :
       /\ activeFilters' = [activeFilters EXCEPT ![b[1]] = b[2]]
       /\ cardList' = RenderCards(allItems, activeFilters', activeSort, cardList).view
  /\ UNCHANGED <<pc, server, loadOutcome, failShown, allItems, activeSort, hash,
                 pending, listening, bound, overlayActive, bodyOverflow, panel>>
  /\ UNCHANGED harnessVars

SortChangeInPlace ==
  /\ bound
  /\ \E v \in SortOptions :
       /\ activeSort' = v
       /\ allItems' = ApplySort(allItems, v)
       /\ cardList' = RenderCards(allItems', activeFilters, v, cardList).view
  /\ UNCHANGED <<pc, server, loadOutcome, failShown, activeFilters, hash,
                 pending, listening, bound, overlayActive, bodyOverflow, panel>>
  /\ UNCHANGED harnessVars

\* change on #sortSelect
SortChange ==
  /\ bound
  /\ \E v \in SortOptions :
       /\ activeSort' = v
       /\ cardList' = RenderCards(allItems, activeFilters, v, cardList).view
  /\ UNCHANGED <<pc, server, loadOutcome, failShown, allItems, activeFilters, hash,
                 pending, listening, bound, overlayActive, bodyOverflow, panel>>
  /\ UNCHANGED harnessVars

CloseFrame ==
  /\ UNCHANGED <<pc, server, loadOutcome, failShown, allItems, activeFilters,
                 activeSort, cardList, pending, listening, bound>>
  /\ UNCHANGED harnessVars

\* click on the overlay background
OverlayClick ==
  /\ bound
  /\ overlayActive
  /\ SetNav(CloseDetail(Nav))
  /\ CloseFrame

\* keydown Escape
EscapeKey ==
  /\ bound
  /\ SetNav(CloseDetail(Nav))
  /\ CloseFrame

\* click on the .detail-close button that openDetail wired
CloseButton ==
  /\ overlayActive
  /\ SetNav(CloseDetail(Nav))
  /\ CloseFrame

Next ==
  \/ LoadData
  \/ InitFinish
  \/ SetHash
  \/ CardClick
  \/ DispatchHashChange
  \/ FilterClick
  \/ SortChange
  \/ OverlayClick
  \/ EscapeKey
  \/ CloseButton

Spec == Init /\ [][Next]_vars

----------------------------------------------------------------------------
(* The pure functions, each called once on arguments drawn from bounded sets *)

SeqsUpTo(S, n) == UNION {[1..k -> S] : k \in 0..n}

\* position i of an argument sequence becomes listing IdNames[i]
Tagged(payloads, Mk(_, _)) == [i \in 1..Len(payloads) |-> Mk(IdNames[i], payloads[i])]

MkFilterItem(id, p) == MkItem(id, p[1], p[2], Null, NoDate, NoDate, NoModels)
MkProfitItem(id, p) == MkItem(id, StOpen, "seoul", p, NoDate, NoDate, NoModels)
MkDateItem(id, p) == MkItem(id, StOpen, "seoul", Null, p[1], p[2], NoModels)

Profits == {Null} \cup {Num(n) : n \in (0 - 1)..MaxProfit}
ReceiptDates == {NoDate, BadDate} \cup {Date(n) : n \in 1..MaxDate}
AnnouncementDates == {NoDate} \cup {Date(n) : n \in 1..MaxDate}

\* <<receipt_start, announcement_date>> of a schedule
DatePairs ==
  (ReceiptDates \X {NoDate}) \cup ({NoDate} \X AnnouncementDates)
    \cup {<<Date(MaxDate), Date(1)>>, <<Date(1), Date(MaxDate)>>, <<BadDate, Date(1)>>}

FilterStates ==
  [status : {"upcoming", "all"} \cup Statuses, region : {"all"} \cup Regions]

FilterArgs ==
  {[items |-> Tagged(s, MkFilterItem), filters |-> f] :
     s \in SeqsUpTo(Statuses \X Regions, MaxLen), f \in FilterStates}

SortArgs ==
  {[items |-> Tagged(s, MkProfitItem), sort |-> k] :
     s \in SeqsUpTo(Profits, MaxLen), k \in {"profit-desc", "profit-asc"}}
  \cup
  {[items |-> Tagged(s, MkDateItem), sort |-> k] :
     s \in SeqsUpTo(DatePairs, MaxLen),
     k \in {"date-asc", "date-desc"}}

ModelArgs ==
  {NoModels} \cup {Models([i \in 1..Len(s) |-> [profit |-> s[i]]]) :
                     s \in SeqsUpTo(Profits, MaxLen)}

Amount(n) == [kind |-> "number", v |-> n]

Amounts ==
  {[kind |-> "null", v |-> 0], [kind |-> "undefined", v |-> 0]}
    \cup {Amount(n) : n \in {0, 1, 500, 9999, 10000, 15000, 12345678, 99999999,
                             100000000, 100009999, 120000000, 250000000,
                             1234567890}}
    \cup {Amount(0 - n) : n \in {1, 500, 15000, 120000000}}

InitPure ==
  /\ AppStart
  /\ server = [kind |-> "ok", items |-> <<>>]
  /\ hash = <<>>
  /\ hRet = Pending
  /\ hDone = FALSE
  /\ \/ hFn = "applyFilters" /\ hArg \in FilterArgs
     \/ hFn = "applySort" /\ hArg \in SortArgs
     \/ hFn = "getBestModel" /\ hArg \in ModelArgs
     \/ hFn = "formatMoney" /\ hArg \in Amounts

CallApplyFilters ==
  /\ hFn = "applyFilters"
  /\ ~hDone
  /\ hRet' = ApplyFilters(hArg.items, hArg.filters)
  /\ hDone' = TRUE
  /\ UNCHANGED <<hFn, hArg>>
  /\ UNCHANGED appVars

CallApplySort ==
  /\ hFn = "applySort"
  /\ ~hDone
  /\ hRet' = ApplySort(hArg.items, hArg.sort)
  /\ hDone' = TRUE
  /\ UNCHANGED <<hFn, hArg>>
  /\ UNCHANGED appVars

CallGetBestModel ==
  /\ hFn = "getBestModel"
  /\ ~hDone
  /\ hRet' = GetBestModel(hArg)
  /\ hDone' = TRUE
  /\ UNCHANGED <<hFn, hArg>>
  /\ UNCHANGED appVars

CallFormatMoney ==
  /\ hFn = "formatMoney"
  /\ ~hDone
  /\ hRet' = FormatMoney(hArg)
  /\ hDone' = TRUE
  /\ UNCHANGED <<hFn, hArg>>
  /\ UNCHANGED appVars

NextPure ==
  \/ CallApplyFilters
  \/ CallApplySort
  \/ CallGetBestModel
  \/ CallFormatMoney

SpecPure == InitPure /\ [][NextPure]_vars

----------------------------------------------------------------------------
(* Properties of the overlay and of the load *)

Returned(fn) == hFn = fn /\ hDone

Shows(id) == overlayActive /\ panel # <<>> /\ <<panel[1].id>> = id

\* C1: with no hashchange event pending, an open overlay shows the listing
\* named by the fragment '#detail/{id}', and a fragment that is not
\* '#detail/...' means no overlay.
C1_FragmentIsTruth ==
  pending = 0 =>
    /\ overlayActive => StartsWithDetail(hash) /\ Shows(Tail(hash))
    /\ ~StartsWithDetail(hash) => ~overlayActive

\* C2: the body scroll lock is set exactly while the overlay is displayed,
\* and once every fragment change has been handled a fragment that is not
\* '#detail/...' leaves the lock released.
C2_ScrollLock ==
  /\ bodyOverflow = "hidden" <=> overlayActive
  /\ bodyOverflow \in {"", "hidden"}
  /\ (pending = 0 /\ ~StartsWithDetail(hash)) => bodyOverflow = ""

C2_Witness ==
  /\ pc = "ready"
  /\ panel # <<>>
  /\ ~overlayActive
  /\ bodyOverflow = ""
  /\ hash = <<>>

\* C3: when the load ended in failure and the load-failure view is shown,
\* the listing store is empty.
C3_FailedLoadLeavesStoreEmpty ==
  (loadOutcome = "failed" /\ cardList.kind = "loadFail") => allItems = <<>>

\* C4: once the load has failed, the load-failure view was written once and
\* stays the content of the card list.
C4_LoadFailureIsTerminal ==
  loadOutcome = "failed" => failShown = 1 /\ cardList = LoadFailView

Known(h) == StartsWithDetail(h) /\ Find(allItems, Tail(h)) # 0

\* C5: nothing interprets the fragment while the load is in flight; when
\* init finishes after a successful load the overlay shows the listing of the
\* current fragment if it names a loaded listing, and is closed otherwise;
\* from then on every dispatched hashchange runs handleHashChange.
C5_DeepLinkRestored ==
  [][/\ pc = "fetching" => (~overlayActive /\ panel = <<>> /\ ~listening)
     /\ (pc = "loaded" /\ pc' = "ready" /\ loadOutcome = "ok") =>
          /\ listening'
          /\ hash' = hash
          /\ IF Known(hash)
             THEN overlayActive' /\ panel' = <<allItems[Find(allItems, Tail(hash))]>>
             ELSE ~overlayActive'
     /\ (pc = "ready" /\ pending' < pending) =>
          Nav' = HandleHashChange(allItems, Nav).st]_vars

C5_Witness ==
  /\ pc = "ready"
  /\ loadOutcome = "ok"
  /\ pending > 0
  /\ Len(allItems) >= 2
  /\ hash = DetailFragment(allItems[2].id)
  /\ Shows(Tail(hash))

\* C10: after the load the listing store never changes, whatever is clicked,
\* sorted or navigated.
C10_StoreImmutable ==
  [][pc # "fetching" => allItems' = allItems]_vars

C10_Witness ==
  /\ pc = "ready"
  /\ cardList.kind = "cards"
  /\ Len(cardList.items) = Len(allItems)
  /\ Len(allItems) >= 2
  /\ cardList.items # allItems
  /\ allItems = server.items

----------------------------------------------------------------------------
(* Properties of the pure functions *)

ClaimKeeps(L, f) ==
  /\ f.status = "upcoming" => L.status \in {StUpcoming, StOpen}
  /\ f.status \notin {"upcoming", "all"} => L.status = f.status
  /\ f.region = "all" \/ L.region = f.region

KeptIndices(items, f) == {i \in 1..Len(items) : ClaimKeeps(items[i], f)}

NthOf(K, k) == CHOOSE i \in K : Cardinality({j \in K : j < i}) = k - 1

\* C6: the filter output is the subsequence, in input order, of the listings
\* that pass the status filter AND the region filter; with both filters
\* 'all' it is the input.
C6_Filtering ==
  Returned("applyFilters") =>
    LET K == KeptIndices(hArg.items, hArg.filters)
    IN /\ Len(hRet) = Cardinality(K)
       /\ \A k \in 1..Len(hRet) : hRet[k] = hArg.items[NthOf(K, k)]
       /\ (hArg.filters.status = "all" /\ hArg.filters.region = "all")
            => hRet = hArg.items

C6_Witness ==
  /\ Returned("applyFilters")
  /\ hArg.filters = [status |-> "upcoming", region |-> "seoul"]
  /\ Len(hArg.items) = 3
  /\ Len(hRet) = 2
  /\ hRet[1].status = StUpcoming
  /\ hRet[2].status = StOpen

ClaimProfitKey(item) == IF item.max_profit.null THEN 0 ELSE item.max_profit.v

ClaimDateKey(item) ==
  IF item.schedule.receipt_start.kind = "date"
  THEN item.schedule.receipt_start.t
  ELSE IF item.schedule.announcement_date.kind = "date"
  THEN item.schedule.announcement_date.t
  ELSE 0

ClaimKey(sort, item) ==
  IF sort \in {"profit-desc", "profit-asc"} THEN ClaimProfitKey(item)
  ELSE ClaimDateKey(item)

PosOf(items, id) == CHOOSE p \in 1..Len(items) : items[p].id = id

\* C7: the sort output is a permutation of the input, monotone in the key of
\* the sort (profit with missing as 0; receipt-start date, else announcement
\* date, else 0), equal keys keep their input order, and sorting the output
\* again changes nothing.
C7_StableSort ==
  Returned("applySort") =>
    LET in == hArg.items
        k == hArg.sort
        asc == k \in {"profit-asc", "date-asc"}
    IN /\ Len(hRet) = Len(in)
       /\ {hRet[i].id : i \in 1..Len(hRet)} = {in[i].id : i \in 1..Len(in)}
       /\ \A i \in 1..Len(hRet) : hRet[i] = in[PosOf(in, hRet[i].id)]
       /\ \A i, j \in 1..Len(hRet) :
            i < j =>
              /\ IF asc THEN ClaimKey(k, hRet[i]) <= ClaimKey(k, hRet[j])
                        ELSE ClaimKey(k, hRet[i]) >= ClaimKey(k, hRet[j])
              /\ ClaimKey(k, hRet[i]) = ClaimKey(k, hRet[j])
                   => PosOf(in, hRet[i].id) < PosOf(in, hRet[j].id)
       /\ ApplySort(hRet, k) = hRet

C7_Witness ==
  /\ Returned("applySort")
  /\ hArg.sort = "date-asc"
  /\ Len(hRet) = 3
  /\ <<hRet[1].id, hRet[2].id, hRet[3].id>> = <<"B", "C", "A">>
  /\ hRet[1].schedule = [receipt_start |-> NoDate, announcement_date |-> NoDate]
  /\ hRet[2].schedule = [receipt_start |-> BadDate, announcement_date |-> NoDate]
  /\ hRet[3].schedule = [receipt_start |-> Date(1), announcement_date |-> Date(2)]

Zero == Amount(0)
ZeroWon == [sign |-> "", eok |-> <<>>, man |-> <<>>, won |-> <<0>>, text |-> "won"]

\* C8 as stated: formatMoney(0) yields "-", like formatMoney(null) and
\* formatMoney(undefined).
C8_ZeroIsDash ==
  (Returned("formatMoney") /\ hArg = Zero) => hRet = Dash

\* C8 amended: formatMoney(null) and formatMoney(undefined) yield "-", and
\* formatMoney(0) yields "0won", which is not "-".
C8_ZeroIsFormatted ==
  Returned("formatMoney") =>
    /\ hArg.kind \in {"null", "undefined"} => hRet = Dash
    /\ hArg = Zero => (hRet = ZeroWon /\ hRet # Dash)

C8_Witness ==
  /\ Returned("formatMoney")
  /\ hArg = Zero
  /\ hRet.text = "won"

ModelKey(m) == IF m.profit.null THEN 0 ELSE m.profit.v

\* C9: getBestModel returns null for an absent or empty sequence, and
\* otherwise the element at the smallest index whose profit (missing as 0) is
\* the maximum of the sequence.
C9_FirstMaximum ==
  Returned("getBestModel") =>
    IF hArg.kind = "absent" \/ Len(hArg.list) = 0
    THEN hRet.kind = "null"
    ELSE /\ hRet.kind = "model"
         /\ hRet.idx \in 1..Len(hArg.list)
         /\ \A i \in 1..Len(hArg.list) :
              ModelKey(hArg.list[i]) <= ModelKey(hArg.list[hRet.idx])
         /\ \A i \in 1..(hRet.idx - 1) :
              ModelKey(hArg.list[i]) < ModelKey(hArg.list[hRet.idx])

C9_Witness ==
  /\ Returned("getBestModel")
  /\ hArg.kind = "array"
  /\ Len(hArg.list) = 3
  /\ hArg.list[1].profit = Num(0)
  /\ hArg.list[2].profit = Num(1)
  /\ hArg.list[3].profit = Num(1)
  /\ hRet = [kind |-> "model", idx |-> 2]

====
